---- MODULE Spec2Model ----
(***************************************************************************)
(* A model of the pool-backed loose quadtree of src/src/quadtree.rs and of *)
(* the PoolList of src/src/list.rs.                                        *)
(*                                                                         *)
(* Indices are 0-based as in the source; Option<usize>::None is None.      *)
(* f32 arguments are represented in half units (the value v stands for the *)
(* float v/2), so that the `as i32` cast (truncation toward zero) is a     *)
(* real conversion.                                                        *)
(***************************************************************************)
EXTENDS Integers, Sequences, FiniteSets, TLC

\* the fields of a Quadtree, and the last call made on it
VARIABLES root, max_entities, max_depth, nodes, entities, entity_nodes, last
\* the ids of the live entities in the order of the insert calls that returned
\* them, oldest first
VARIABLES order
\* an insert call followed step by step: the stack of the node_insert and
\* leaf_insert calls in progress (the last element is the innermost call),
\* and, while the call is in progress, the pools at the call, the rectangle
\* and the id of the entity
VARIABLES calls, entry
\* a List<u8> used on its own, the last call made on it, and whether a call
\* has panicked
VARIABLES list, lop, panicked
\* the arguments and the result of a call of calc_max_depth
VARIABLES calc

tree_vars ==
  <<root, max_entities, max_depth, nodes, entities, entity_nodes, last, order,
    calls, entry>>
list_vars == <<list, lop, panicked>>
vars == <<root, max_entities, max_depth, nodes, entities, entity_nodes, last,
          order, calls, entry, list, lop, panicked, calc>>

(***************************************************************************)
(* Bounds of the model.                                                    *)
(***************************************************************************)
\* entity_nodes.cursor never goes down (leaf_insert pushes, it never reuses
\* an erased cell), so inserts are cut off when it would pass MaxCells.
MaxCells == 7
\* bound on entities.cursor (number of distinct entity ids handed out): an
\* insert of a rectangle with left > right that is routed to a branch child
\* of the root allocates no cell, so the cells alone do not bound the ids
MaxIds == MaxCells \div 3

\* Option::None
None == -1

\* arguments <<x1, y1, x2, y2>> of insert, f32 in half units (-5 is -2.5, 4 is
\* 2.0): a point, a zero-height segment that crosses the vertical split axis,
\* and a rectangle with left > right (left -1, right -2) that the root routes
\* to its first child and that child routes nowhere
InsertArgs == {<<-5, -5, -5, -5>>, <<-5, 4, 4, 4>>, <<-3, -5, -5, -5>>}
\* arguments <<x1, y1, x2, y2>> of query, f32 in half units (1 is 0.5): points
\* on and off the inserted rectangles, rows and columns on and beside the split
\* axes, the whole region, and two rectangles with left > right or top > bottom
QueryArgs ==
  {<<-5, -5, -5, -5>>, <<4, 4, 4, 4>>, <<-5, 4, -5, 4>>, <<1, 4, 1, 4>>,
   <<1, -5, 1, 4>>, <<4, -5, 4, 4>>, <<-5, -5, -5, 4>>,
   <<-5, -5, 1, -5>>, <<1, 4, 4, 4>>, <<-5, -5, 4, 4>>,
   <<4, -5, -5, 4>>, <<-5, 4, 4, -5>>}
\* arguments of Quadtree::new: <<x, y, width, height, max_entities>>, half units:
\* an 8 x 8 region (max_depth 2) and an 8 x 4 region (max_depth 1)
NewArgs == {<<0, 0, 16, 17, 1>>, <<0, 0, 16, 9, 1>>}

\* `v as i32` for an f32 v given in half units: truncation toward zero
AsI32(v) == IF v >= 0 THEN v \div 2 ELSE -((-v) \div 2)

\* i32 `a / 2` (truncating) and `a >> 1` (arithmetic shift, i.e. floor)
DivTrunc2(a) == IF a >= 0 THEN a \div 2 ELSE -((-a) \div 2)
Shr1(a) == a \div 2
Shl1(a) == a * 2

Last(s) == s[Len(s)]
Front(s) == SubSeq(s, 1, Len(s) - 1)
Range(s) == {s[i] : i \in 1..Len(s)}

(***************************************************************************)
(* PoolList (src/src/list.rs).  data holds the slots 0..Len-1 that have    *)
(* ever been written; the slots from there up to capacity hold T::default. *)
(***************************************************************************)
DefaultCapacity == 128

ListNew(capacity) ==
  [data |-> <<>>, cursor |-> 0, capacity |-> capacity, vacant |-> <<>>]

ListDefault == ListNew(DefaultCapacity)

\* self.data[index] = element, on the 0-based slots
Store(data, index, element) ==
  [i \in (DOMAIN data) \cup {index} |-> IF i = index THEN element ELSE data[i]]

ListPush(l, element) ==
  LET new_pos == l.cursor + 1
      cap == IF new_pos > l.capacity THEN l.cursor * 2 ELSE l.capacity
  IN [l EXCEPT !.data = Store(l.data, l.cursor, element),
               !.cursor = l.cursor + 1,
               !.capacity = cap]

\* the index List::push returns
ListPushIdx(l) == l.cursor

\* the length of the buffer when push writes: push panics (index out of
\* bounds) when the slot it writes is not below that length
PushLen(l) == IF l.cursor + 1 > l.capacity THEN l.cursor * 2 ELSE l.capacity
PushPanics(l) == l.cursor >= PushLen(l)

\* the list a push that panics leaves behind: resized, cursor advanced,
\* nothing written
ListPushPanicked(l) == [l EXCEPT !.cursor = l.cursor + 1, !.capacity = PushLen(l)]

ListPop(l) == [l EXCEPT !.cursor = l.cursor - 1]

\* the value List::pop returns
ListPopValue(l) == l.data[l.cursor - 1]

ListClear(l) == [l EXCEPT !.cursor = 0, !.vacant = <<>>]

\* List::insert that never looks at the free stack
ListInsertPush(l, element) == ListPush(l, element)

\* List::insert that takes the oldest erased index
ListInsertFifo(l, element) ==
  IF l.vacant # <<>>
    THEN [l EXCEPT !.data = Store(l.data, Head(l.vacant), element),
                   !.vacant = Tail(l.vacant)]
    ELSE ListPush(l, element)

ListInsert(l, element) ==
  IF l.vacant # <<>>
    THEN [l EXCEPT !.data = Store(l.data, Last(l.vacant), element),
                   !.vacant = Front(l.vacant)]
    ELSE ListPush(l, element)

\* the index List::insert returns
ListInsertIdx(l) == IF l.vacant # <<>> THEN Last(l.vacant) ELSE l.cursor

ListErase(l, index) == [l EXCEPT !.vacant = Append(l.vacant, index)]

(***************************************************************************)
(* Records of the quadtree.                                                *)
(***************************************************************************)
NodeDefault == [first_child |-> None, num_children |-> 0]

MkNodeData(idx, depth, x, y, hx, hy) ==
  [idx |-> idx, depth |-> depth, x |-> x, y |-> y, hx |-> hx, hy |-> hy]

MkEntity(x1, y1, x2, y2) ==
  [left |-> AsI32(x1), top |-> AsI32(y1), right |-> AsI32(x2), bottom |-> AsI32(y2)]

\* the three pools of a Quadtree as one value
Pools(n, e, en) == [nodes |-> n, entities |-> e, entity_nodes |-> en]

IsBranch(ns, idx) == ns.data[idx].num_children = None

CalcMaxDepthLoop[size \in Int] ==
  IF size > 2 THEN 1 + CalcMaxDepthLoop[DivTrunc2(size)] ELSE 0

\* calc_max_depth that looks at the width alone
calc_max_depth_width(w, h) == CalcMaxDepthLoop[w]

calc_max_depth(w, h) == CalcMaxDepthLoop[IF w <= h THEN w ELSE h]

\* intersect without the test r2 >= l1
IntersectNoLeft(l1, t1, r1, b1, l2, t2, r2, b2) ==
  l2 <= r1 /\ t2 <= b1 /\ b2 >= t1

Intersect(l1, t1, r1, b1, l2, t2, r2, b2) ==
  l2 <= r1 /\ r2 >= l1 /\ t2 <= b1 /\ b2 >= t1

(***************************************************************************)
(* find_leaves                                                             *)
(***************************************************************************)
\* the routing with left < x and top < y in place of <=
BranchPushesStrict(nd_data, fc, left, top, right, bottom) ==
  LET qx == Shr1(nd_data.hx)
      qy == Shr1(nd_data.hy)
      l == nd_data.x - qx
      t == nd_data.y - qy
      r == nd_data.x + qx
      b == nd_data.y + qy
      d == nd_data.depth + 1
  IN (IF top < nd_data.y /\ left < nd_data.x
        THEN <<MkNodeData(fc + 0, d, l, t, qx, qy)>> ELSE <<>>)
     \o (IF top < nd_data.y /\ right > nd_data.x
        THEN <<MkNodeData(fc + 1, d, r, t, qx, qy)>> ELSE <<>>)
     \o (IF bottom > nd_data.y /\ left < nd_data.x
        THEN <<MkNodeData(fc + 2, d, l, b, qx, qy)>> ELSE <<>>)
     \o (IF bottom > nd_data.y /\ right > nd_data.x
        THEN <<MkNodeData(fc + 3, d, r, b, qx, qy)>> ELSE <<>>)

\* the routing with right >= x in place of right > x
BranchPushesBothSides(nd_data, fc, left, top, right, bottom) ==
  LET qx == Shr1(nd_data.hx)
      qy == Shr1(nd_data.hy)
      l == nd_data.x - qx
      t == nd_data.y - qy
      r == nd_data.x + qx
      b == nd_data.y + qy
      d == nd_data.depth + 1
  IN (IF top <= nd_data.y /\ left <= nd_data.x
        THEN <<MkNodeData(fc + 0, d, l, t, qx, qy)>> ELSE <<>>)
     \o (IF top <= nd_data.y /\ right >= nd_data.x
        THEN <<MkNodeData(fc + 1, d, r, t, qx, qy)>> ELSE <<>>)
     \o (IF bottom > nd_data.y /\ left <= nd_data.x
        THEN <<MkNodeData(fc + 2, d, l, b, qx, qy)>> ELSE <<>>)
     \o (IF bottom > nd_data.y /\ right >= nd_data.x
        THEN <<MkNodeData(fc + 3, d, r, b, qx, qy)>> ELSE <<>>)

\* the children a branch pushes on the stack, in push order
BranchPushes(nd_data, fc, left, top, right, bottom) ==
  LET qx == Shr1(nd_data.hx)
      qy == Shr1(nd_data.hy)
      l == nd_data.x - qx
      t == nd_data.y - qy
      r == nd_data.x + qx
      b == nd_data.y + qy
      d == nd_data.depth + 1
  IN (IF top <= nd_data.y /\ left <= nd_data.x
        THEN <<MkNodeData(fc + 0, d, l, t, qx, qy)>> ELSE <<>>)
     \o (IF top <= nd_data.y /\ right > nd_data.x
        THEN <<MkNodeData(fc + 1, d, r, t, qx, qy)>> ELSE <<>>)
     \o (IF bottom > nd_data.y /\ left <= nd_data.x
        THEN <<MkNodeData(fc + 2, d, l, b, qx, qy)>> ELSE <<>>)
     \o (IF bottom > nd_data.y /\ right > nd_data.x
        THEN <<MkNodeData(fc + 3, d, r, b, qx, qy)>> ELSE <<>>)

RECURSIVE FindLeavesLoop(_, _, _, _, _, _, _)
FindLeavesLoop(ns, to_process, leaves, left, top, right, bottom) ==
  IF to_process = <<>> THEN leaves
  ELSE LET nd_data == Last(to_process)
           rest == Front(to_process)
       IN IF ~IsBranch(ns, nd_data.idx)
            THEN FindLeavesLoop(ns, rest, Append(leaves, nd_data),
                                left, top, right, bottom)
            ELSE FindLeavesLoop(ns,
                   rest \o BranchPushes(nd_data, ns.data[nd_data.idx].first_child,
                                        left, top, right, bottom),
                   leaves, left, top, right, bottom)

find_leaves(ns, start_node, left, top, right, bottom) ==
  FindLeavesLoop(ns, <<start_node>>, <<>>, left, top, right, bottom)

(***************************************************************************)
(* node_insert / leaf_insert                                               *)
(***************************************************************************)
\* the split test with depth <= max_depth
SplitTestOffByOne(q, node_data) ==
  /\ q.nodes.data[node_data.idx].num_children = max_entities
  /\ node_data.depth <= max_depth

\* the split test that fires one entity late
SplitTestLate(q, node_data) ==
  /\ q.nodes.data[node_data.idx].num_children = max_entities + 1
  /\ node_data.depth < max_depth

\* the test that decides a split, after the new cell has been linked
SplitTest(q, node_data) ==
  /\ q.nodes.data[node_data.idx].num_children = max_entities
  /\ node_data.depth < max_depth

\* the while loop that drains the chain of the splitting leaf
RECURSIVE Drain(_, _, _)
Drain(q, idx, ents) ==
  IF q.nodes.data[idx].first_child = None
    THEN [q |-> q, entities |-> ents]
    ELSE LET index == q.nodes.data[idx].first_child
             e_node == q.entity_nodes.data[index]
         IN Drain([q EXCEPT !.nodes.data[idx].first_child = e_node.next,
                            !.entity_nodes = ListErase(q.entity_nodes, index)],
                  idx, Append(ents, e_node.entity))

\* the four nodes.insert(Node::default()) calls of a split and the two
\* assignments that make the node a branch
AllocChildren(ns, idx) ==
  LET fc == ListInsertIdx(ns)
      n4 == ListInsert(ListInsert(ListInsert(ListInsert(ns, NodeDefault),
                                             NodeDefault), NodeDefault), NodeDefault)
  IN [n4 EXCEPT !.data[idx] = [first_child |-> fc, num_children |-> None]]

\* the cell leaf_insert allocates and links at the head of the chain
LinkCell(q, idx, entity_idx) ==
  LET first_child == q.nodes.data[idx].first_child
      e_node == ListPushIdx(q.entity_nodes)
  IN [q EXCEPT !.entity_nodes = ListPush(q.entity_nodes,
                                  [next |-> first_child, entity |-> entity_idx]),
               !.nodes.data[idx].first_child = e_node]

RECURSIVE node_insert(_, _, _), leaf_insert(_, _, _),
          NodeInsertLeaves(_, _, _, _), ReinsertDrained(_, _, _, _),
          ReinsertDrainedBackward(_, _, _, _)

\* for i in 0..leaves.cursor() { self.leaf_insert(*leaves.get(i), entity_idx) }
NodeInsertLeaves(q, leaves, i, entity_idx) ==
  IF i > Len(leaves) THEN q
  ELSE NodeInsertLeaves(leaf_insert(q, leaves[i], entity_idx), leaves, i + 1, entity_idx)

\* node_insert that puts the entity into the first leaf found alone
node_insert_first(q, start_node, entity_idx) ==
  LET entity == q.entities.data[entity_idx]
      leaves == find_leaves(q.nodes, start_node,
                            entity.left, entity.top, entity.right, entity.bottom)
  IN IF leaves = <<>> THEN q ELSE leaf_insert(q, leaves[1], entity_idx)

node_insert(q, start_node, entity_idx) ==
  LET entity == q.entities.data[entity_idx]
      leaves == find_leaves(q.nodes, start_node,
                            entity.left, entity.top, entity.right, entity.bottom)
  IN NodeInsertLeaves(q, leaves, 1, entity_idx)

\* the loop that re-inserts the drained entities from the last one drained to
\* the first
ReinsertDrainedBackward(q, node_data, ents, i) ==
  IF i > Len(ents) THEN q
  ELSE ReinsertDrainedBackward(node_insert(q, node_data, ents[Len(ents) + 1 - i]),
                               node_data, ents, i + 1)

\* for i in 0..entities.cursor() { self.node_insert(node_data, *entities.get(i)) }
ReinsertDrained(q, node_data, ents, i) ==
  IF i > Len(ents) THEN q
  ELSE ReinsertDrained(node_insert(q, node_data, ents[i]), node_data, ents, i + 1)

leaf_insert(q, node_data, entity_idx) ==
  LET q1 == LinkCell(q, node_data.idx, entity_idx)
  IN IF SplitTest(q1, node_data)
       THEN LET dr == Drain(q1, node_data.idx, <<>>)
                q2 == [dr.q EXCEPT !.nodes = AllocChildren(dr.q.nodes, node_data.idx)]
            IN ReinsertDrained(q2, node_data, dr.entities, 1)
       ELSE [q1 EXCEPT !.nodes.data[node_data.idx].num_children = @ + 1]

\* Quadtree::insert on the pools; the returned id is ListInsertIdx(q.entities)
InsertPools(q, rect) ==
  LET new_entity_idx == ListInsertIdx(q.entities)
      q1 == [q EXCEPT !.entities = ListInsert(q.entities, rect)]
  IN node_insert(q1, root, new_entity_idx)

(***************************************************************************)
(* remove                                                                  *)
(***************************************************************************)
\* walk the chain until the cell of entity_idx is found or the chain ends
RECURSIVE WalkChain(_, _, _, _)
WalkChain(en, node_idx, prev_index, entity_idx) ==
  IF node_idx # None /\ en.data[node_idx].entity # entity_idx
    THEN WalkChain(en, en.data[node_idx].next, node_idx, entity_idx)
    ELSE [node_idx |-> node_idx, prev_index |-> prev_index]

\* the decrement applied to first_child instead of num_children
DecrementFirstChild(ns, nd_data_idx) ==
  [ns EXCEPT !.data[nd_data_idx].first_child =
               IF @ = None THEN None ELSE @ - 1]

\* the decrement that sets the branch flag when the count reaches zero
DecrementCountEager(ns, nd_data_idx) ==
  LET num_children == ns.data[nd_data_idx].num_children
  IN IF num_children = 1
       THEN [ns EXCEPT !.data[nd_data_idx].num_children = None]
       ELSE [ns EXCEPT !.data[nd_data_idx].num_children = num_children - 1]

\* decrement the leaf element count
DecrementCount(ns, nd_data_idx) ==
  LET num_children == ns.data[nd_data_idx].num_children
  IN IF num_children = 0
       THEN [ns EXCEPT !.data[nd_data_idx].num_children = None]
       ELSE [ns EXCEPT !.data[nd_data_idx].num_children = num_children - 1]

\* the body of the for loop of remove, for one leaf
RemoveFromLeaf(q, nd_data_idx, entity_idx) ==
  LET w == WalkChain(q.entity_nodes, q.nodes.data[nd_data_idx].first_child,
                     None, entity_idx)
  IN IF w.node_idx # None
       THEN LET next_index == q.entity_nodes.data[w.node_idx].next
                q1 == IF w.prev_index = None
                        THEN [q EXCEPT !.nodes.data[nd_data_idx].first_child = next_index]
                        ELSE [q EXCEPT !.entity_nodes.data[w.prev_index].next = next_index]
                q2 == [q1 EXCEPT !.entity_nodes = ListErase(q1.entity_nodes, w.node_idx)]
            IN [q2 EXCEPT !.nodes = DecrementCount(q2.nodes, nd_data_idx)]
       ELSE q

RECURSIVE RemoveLeaves(_, _, _, _)
RemoveLeaves(q, leaves, i, entity_idx) ==
  IF i > Len(leaves) THEN q
  ELSE RemoveLeaves(RemoveFromLeaf(q, leaves[i].idx, entity_idx), leaves, i + 1, entity_idx)

\* remove looking only into the leaves of the rectangle's left top corner
RemoveTargetsCorner(q, entity_idx) ==
  LET entity == q.entities.data[entity_idx]
  IN find_leaves(q.nodes, root, entity.left, entity.top, entity.left, entity.top)

\* the leaves remove looks into
RemoveTargets(q, entity_idx) ==
  LET entity == q.entities.data[entity_idx]
  IN find_leaves(q.nodes, root, entity.left, entity.top, entity.right, entity.bottom)

RemovePools(q, entity_idx) ==
  LET q1 == RemoveLeaves(q, RemoveTargets(q, entity_idx), 1, entity_idx)
  IN [q1 EXCEPT !.entities = ListErase(q1.entities, entity_idx)]

(***************************************************************************)
(* cleanup                                                                 *)
(***************************************************************************)
\* cleanup that defers no child
CleanupPushesNone(ns, fc) == <<>>

\* the children of a popped branch that are branches, in push order
CleanupPushes(ns, fc) ==
  SelectSeq(<<fc + 0, fc + 1, fc + 2, fc + 3>>, LAMBDA child_idx : IsBranch(ns, child_idx))

\* the count of the children that are leaves, empty or not
CountLeaves(ns, fc) ==
  Cardinality({i \in 0..3 : ns.data[fc + i].num_children # None})

CountEmptyLeaves(ns, fc) ==
  Cardinality({i \in 0..3 : ns.data[fc + i].num_children = 0})

\* the four erase calls in ascending order
EraseChildrenAscending(ns, fc) ==
  ListErase(ListErase(ListErase(ListErase(ns, fc + 0), fc + 1), fc + 2), fc + 3)

\* the four erase calls of a collapse
EraseChildren(ns, fc) ==
  ListErase(ListErase(ListErase(ListErase(ns, fc + 3), fc + 2), fc + 1), fc + 0)

\* the collapse that erases the four children and leaves the node a branch
CollapseEraseOnly(ns, node_idx, fc) == EraseChildren(ns, fc)

\* the collapse that makes the node the empty leaf and erases no child
CollapseLeak(ns, node_idx, fc) ==
  [ns EXCEPT !.data[node_idx] = [first_child |-> None, num_children |-> 0]]

\* remove the four children and make the node the new empty leaf
Collapse(ns, node_idx, fc) ==
  [EraseChildren(ns, fc) EXCEPT !.data[node_idx] =
                                   [first_child |-> None, num_children |-> 0]]

RECURSIVE CleanupLoop(_, _)
CleanupLoop(ns, to_process) ==
  IF to_process = <<>> THEN ns
  ELSE LET node_idx == Last(to_process)
           fc == ns.data[node_idx].first_child
           stack == Front(to_process) \o CleanupPushes(ns, fc)
       IN IF CountEmptyLeaves(ns, fc) = 4
            THEN CleanupLoop(Collapse(ns, node_idx, fc), stack)
            ELSE CleanupLoop(ns, stack)

\* cleanup that runs its loop a second time on what the first run left
cleanup_twice(ns) ==
  LET once == CleanupLoop(ns, IF IsBranch(ns, root.idx) THEN <<root.idx>> ELSE <<>>)
  IN CleanupLoop(once, IF IsBranch(once, root.idx) THEN <<root.idx>> ELSE <<>>)

cleanup(ns) ==
  CleanupLoop(ns, IF IsBranch(ns, root.idx) THEN <<root.idx>> ELSE <<>>)

(***************************************************************************)
(* query / query_omit                                                      *)
(***************************************************************************)
\* the condition without the seen test
QueryTestNoSeen(q, acc, entity_node, omit_entity_id, q_left, q_top, q_right, q_bottom) ==
  LET entity == q.entities.data[entity_node.entity]
  IN /\ ~(omit_entity_id # None /\ entity_node.entity = omit_entity_id)
     /\ Intersect(q_left, q_top, q_right, q_bottom,
                  entity.left, entity.top, entity.right, entity.bottom)

\* the condition without the omit test
QueryTestNoOmit(q, acc, entity_node, omit_entity_id, q_left, q_top, q_right, q_bottom) ==
  LET entity == q.entities.data[entity_node.entity]
  IN /\ ~acc.seen[entity_node.entity]
     /\ Intersect(q_left, q_top, q_right, q_bottom,
                  entity.left, entity.top, entity.right, entity.bottom)

\* the condition under which query_omit reports the entity of a cell
QueryTest(q, acc, entity_node, omit_entity_id, q_left, q_top, q_right, q_bottom) ==
  LET entity == q.entities.data[entity_node.entity]
  IN /\ ~acc.seen[entity_node.entity]
     /\ ~(omit_entity_id # None /\ entity_node.entity = omit_entity_id)
     /\ Intersect(q_left, q_top, q_right, q_bottom,
                  entity.left, entity.top, entity.right, entity.bottom)

\* walk the chain of one leaf; acc is [out, seen]
RECURSIVE QueryChain(_, _, _, _, _, _, _, _)
QueryChain(q, next_enode_idx, acc, omit_entity_id, q_left, q_top, q_right, q_bottom) ==
  IF next_enode_idx = None THEN acc
  ELSE LET entity_node == q.entity_nodes.data[next_enode_idx]
           acc1 == IF QueryTest(q, acc, entity_node, omit_entity_id,
                                q_left, q_top, q_right, q_bottom)
                     THEN [out |-> Append(acc.out, entity_node.entity),
                           seen |-> [acc.seen EXCEPT ![entity_node.entity] = TRUE]]
                     ELSE acc
       IN QueryChain(q, entity_node.next, acc1, omit_entity_id,
                     q_left, q_top, q_right, q_bottom)

RECURSIVE QueryLeaves(_, _, _, _, _, _, _, _, _)
QueryLeaves(q, leaves, i, acc, omit_entity_id, q_left, q_top, q_right, q_bottom) ==
  IF i > Len(leaves) THEN acc
  ELSE QueryLeaves(q, leaves, i + 1,
                   QueryChain(q, q.nodes.data[leaves[i].idx].first_child, acc,
                              omit_entity_id, q_left, q_top, q_right, q_bottom),
                   omit_entity_id, q_left, q_top, q_right, q_bottom)

query_omit(q, x1, y1, x2, y2, omit_entity_id) ==
  LET q_left == AsI32(x1)
      q_top == AsI32(y1)
      q_right == AsI32(x2)
      q_bottom == AsI32(y2)
      leaves == find_leaves(q.nodes, root, q_left, q_top, q_right, q_bottom)
      seen == [i \in 0..(q.entities.cursor - 1) |-> FALSE]
  IN QueryLeaves(q, leaves, 1, [out |-> <<>>, seen |-> seen], omit_entity_id,
                 q_left, q_top, q_right, q_bottom).out

query(q, x1, y1, x2, y2) == query_omit(q, x1, y1, x2, y2, None)

(***************************************************************************)
(* traverse: the sequence of visitor calls                                 *)
(***************************************************************************)
\* the chain walk that reports the head cell alone
TraverseChainHead(q, node_idx, events) ==
  IF node_idx = None THEN events
  ELSE LET entity_node == q.entity_nodes.data[node_idx]
           entity == q.entities.data[entity_node.entity]
           w == entity.right - entity.left
           h == entity.bottom - entity.top
       IN Append(events, [kind |-> "entity", entity_id |-> entity_node.entity,
                          idx |-> node_idx, next_entity |-> entity_node.next,
                          x |-> entity.left + Shr1(w), y |-> entity.top + Shr1(h),
                          width |-> w, height |-> h])

RECURSIVE TraverseChain(_, _, _)
TraverseChain(q, node_idx, events) ==
  IF node_idx = None THEN events
  ELSE LET entity_node == q.entity_nodes.data[node_idx]
           entity == q.entities.data[entity_node.entity]
           w == entity.right - entity.left
           h == entity.bottom - entity.top
       IN TraverseChain(q, entity_node.next,
            Append(events, [kind |-> "entity", entity_id |-> entity_node.entity,
                            idx |-> node_idx, next_entity |-> entity_node.next,
                            x |-> entity.left + Shr1(w), y |-> entity.top + Shr1(h),
                            width |-> w, height |-> h]))

\* the four children pushed from the last one to the first
TraversePushesReversed(nd_data, fc) ==
  LET qx == Shr1(nd_data.hx)
      qy == Shr1(nd_data.hy)
      l == nd_data.x - qx
      t == nd_data.y - qy
      r == nd_data.x + qx
      b == nd_data.y + qy
      d == nd_data.depth + 1
  IN <<MkNodeData(fc + 3, d, r, b, qx, qy), MkNodeData(fc + 2, d, l, b, qx, qy),
       MkNodeData(fc + 1, d, r, t, qx, qy), MkNodeData(fc + 0, d, l, t, qx, qy)>>

\* the four children traverse pushes, in push order
TraversePushes(nd_data, fc) ==
  LET qx == Shr1(nd_data.hx)
      qy == Shr1(nd_data.hy)
      l == nd_data.x - qx
      t == nd_data.y - qy
      r == nd_data.x + qx
      b == nd_data.y + qy
      d == nd_data.depth + 1
  IN <<MkNodeData(fc + 0, d, l, t, qx, qy), MkNodeData(fc + 1, d, r, t, qx, qy),
       MkNodeData(fc + 2, d, l, b, qx, qy), MkNodeData(fc + 3, d, r, b, qx, qy)>>

RECURSIVE TraverseLoop(_, _, _)
TraverseLoop(q, to_process, events) ==
  IF to_process = <<>> THEN events
  ELSE LET nd_data == Last(to_process)
           node == q.nodes.data[nd_data.idx]
       IN IF node.num_children = None
            THEN TraverseLoop(q, Front(to_process) \o TraversePushes(nd_data, node.first_child),
                   Append(events, [kind |-> "branch", depth |-> nd_data.depth,
                                   idx |-> nd_data.idx, first_leaf |-> node.first_child,
                                   x |-> nd_data.x, y |-> nd_data.y,
                                   width |-> Shl1(nd_data.hx), height |-> Shl1(nd_data.hy)]))
            ELSE TraverseLoop(q, Front(to_process),
                   TraverseChain(q, node.first_child,
                     Append(events, [kind |-> "leaf", depth |-> nd_data.depth,
                                     idx |-> nd_data.idx, num_children |-> node.num_children,
                                     first_entity |-> node.first_child,
                                     x |-> nd_data.x, y |-> nd_data.y,
                                     width |-> Shl1(nd_data.hx), height |-> Shl1(nd_data.hy)])))

traverse(q) == TraverseLoop(q, <<root>>, <<>>)

(***************************************************************************)
(* The state machine.  last records the call that produced the state: its  *)
(* name, the entity id it returned or was given, recycled, which tells     *)
(* that the call was an insert whose split took its four children from the *)
(* Node pool's free stack, and changed, which tells that the call was a    *)
(* cleanup that changed the Node pool.                                     *)
(***************************************************************************)
\* ids of the entities inserted and not yet removed
Live == {i \in 0..(entities.cursor - 1) : i \notin Range(entities.vacant)}

Cur == Pools(nodes, entities, entity_nodes)

\* the values of the variables of a List and of a calc_max_depth call in a
\* specification that makes no use of them
NoList ==
  /\ list = ListDefault
  /\ lop = [op |-> "none", arg |-> None, ret |-> None]
  /\ panicked = FALSE

NoCalc == calc = [w |-> 0, h |-> 0, depth |-> None]

\* no insert call is followed step by step
NoCall ==
  /\ calls = <<>>
  /\ entry = [q |-> None, rect |-> None, id |-> None]

\* the state Quadtree::new(a[1], a[2], a[3], a[4], a[5]) returns
New(a) ==
  LET width == AsI32(a[3])
      height == AsI32(a[4])
  IN /\ nodes = ListInsert(ListDefault, NodeDefault)
     /\ root = MkNodeData(ListInsertIdx(ListDefault), 0, AsI32(a[1]), AsI32(a[2]),
                          DivTrunc2(width), DivTrunc2(height))
     /\ max_entities = a[5]
     /\ max_depth = calc_max_depth(width, height)
     /\ entity_nodes = ListDefault
     /\ entities = ListDefault
     /\ last = [op |-> "new", id |-> None, recycled |-> FALSE, changed |-> FALSE]
     /\ order = <<>>
     /\ NoCall
     /\ NoList
     /\ NoCalc

Init == \E a \in NewArgs : New(a)

Insert(x1, y1, x2, y2) ==
  LET q == InsertPools(Cur, MkEntity(x1, y1, x2, y2))
  IN /\ q.entity_nodes.cursor <= MaxCells
     /\ q.entities.cursor <= MaxIds
     /\ nodes' = q.nodes
     /\ entities' = q.entities
     /\ entity_nodes' = q.entity_nodes
     /\ last' = [op |-> "insert", id |-> ListInsertIdx(entities),
                 recycled |-> Len(q.nodes.vacant) < Len(nodes.vacant),
                 changed |-> FALSE]
     /\ order' = Append(order, ListInsertIdx(entities))
     /\ UNCHANGED <<root, max_entities, max_depth, calls, entry, list_vars, calc>>

\* remove(entity_idx); the interface requires a live entity
Remove(entity_idx) ==
  /\ entity_idx \in Live
  /\ LET q == RemovePools(Cur, entity_idx)
     IN /\ nodes' = q.nodes
        /\ entities' = q.entities
        /\ entity_nodes' = q.entity_nodes
        /\ last' = [op |-> "remove", id |-> entity_idx, recycled |-> FALSE, changed |-> FALSE]
  /\ order' = SelectSeq(order, LAMBDA i : i # entity_idx)
  /\ UNCHANGED <<root, max_entities, max_depth, calls, entry, list_vars, calc>>

Cleanup ==
  /\ nodes' = cleanup(nodes)
  /\ last' = [op |-> "cleanup", id |-> None, recycled |-> FALSE, changed |-> nodes' # nodes]
  /\ UNCHANGED <<root, max_entities, max_depth, entities, entity_nodes, order,
                 calls, entry, list_vars, calc>>

Next ==
  \/ \E a \in InsertArgs : Insert(a[1], a[2], a[3], a[4])
  \/ \E entity_idx \in 0..(MaxIds - 1) : Remove(entity_idx)
  \/ Cleanup

Spec == Init /\ [][Next]_vars

(***************************************************************************)
(* Notions the properties are stated with.                                 *)
(***************************************************************************)
\* the NodeData of the nodes of the subtree of nd, as traverse derives them;
\* the descent stops at an index the pool does not hold
RECURSIVE Subtree(_, _, _)
Subtree(ns, nd, fuel) ==
  IF nd.idx \notin DOMAIN ns.data \/ fuel = 0 THEN {}
  ELSE IF IsBranch(ns, nd.idx) /\ ns.data[nd.idx].first_child # None
    THEN {nd} \cup UNION {Subtree(ns, c, fuel - 1) :
                            c \in Range(TraversePushes(nd, ns.data[nd.idx].first_child))}
    ELSE {nd}

TreeNodes(ns) == Subtree(ns, root, max_depth + 3)
TreeLeaves(ns) == {nd \in TreeNodes(ns) : ~IsBranch(ns, nd.idx)}
TreeBranches(ns) == {nd \in TreeNodes(ns) : IsBranch(ns, nd.idx)}

\* the cells met from first_child along next, at most fuel of them
RECURSIVE ChainCells(_, _, _)
ChainCells(en, node_idx, fuel) ==
  IF node_idx = None \/ fuel = 0 \/ node_idx \notin DOMAIN en.data THEN <<>>
  ELSE <<node_idx>> \o ChainCells(en, en.data[node_idx].next, fuel - 1)

\* the chain of leaf idx; a chain longer than the pool's cursor has a cycle
Chain(q, idx) ==
  ChainCells(q.entity_nodes, q.nodes.data[idx].first_child, q.entity_nodes.cursor + 1)

\* the ids of the entities that have a cell in the chain of leaf idx
ChainEntities(q, idx) ==
  {q.entity_nodes.data[c].entity : c \in Range(Chain(q, idx))}

\* the leaves that hold a cell of entity e
LeavesOf(q, e) == {nd \in TreeLeaves(q.nodes) : e \in ChainEntities(q, nd.idx)}

NoDuplicates(s) == \A i, j \in 1..Len(s) : i # j => s[i] # s[j]

QueryOf(a) == query(Cur, a[1], a[2], a[3], a[4])
QueryOmitOf(a, o) == query_omit(Cur, a[1], a[2], a[3], a[4], o)
\* the leaves a query with arguments a visits
VisitedBy(a) ==
  Range(find_leaves(nodes, root, AsI32(a[1]), AsI32(a[2]), AsI32(a[3]), AsI32(a[4])))

(***************************************************************************)
(* Queries.                                                                *)
(***************************************************************************)
OmitArgs == 0..MaxIds

\* the truncated rectangle of the query arguments a
QRect(a) ==
  [left |-> AsI32(a[1]), top |-> AsI32(a[2]), right |-> AsI32(a[3]), bottom |-> AsI32(a[4])]

WellFormed(r) == r.left <= r.right /\ r.top <= r.bottom

\* the entity rectangle r and the query rectangle qr overlap, edges included
Overlap(qr, r) ==
  r.left <= qr.right /\ r.right >= qr.left /\ r.top <= qr.bottom /\ r.bottom >= qr.top

\* C1: completeness of query. In every reachable state, every live entity
\* with a well-formed rectangle that overlaps (edges included) a well-formed
\* query rectangle is in the result of the query.
C1_Completeness ==
  \A a \in QueryArgs :
    LET out == QueryOf(a)
    IN \A e \in Live :
         (/\ WellFormed(entities.data[e])
          /\ WellFormed(QRect(a))
          /\ Overlap(QRect(a), entities.data[e]))
         => e \in Range(out)

\* the root has split, and an entity that has cells in two leaves is reported
\* by a query that only touches its right edge
C1_Witness ==
  /\ IsBranch(nodes, root.idx)
  /\ \E a \in QueryArgs : \E e \in Live :
       /\ WellFormed(entities.data[e])
       /\ WellFormed(QRect(a))
       /\ QRect(a).left = entities.data[e].right
       /\ entities.data[e].left < entities.data[e].right
       /\ Cardinality(LeavesOf(Cur, e)) >= 2
       /\ e \in Range(QueryOf(a))

\* C2: soundness of query. In every reachable state, every id a query
\* returns is the id of a live entity whose stored rectangle overlaps the
\* query rectangle.
C2_Soundness ==
  \A a \in QueryArgs : \A id \in Range(QueryOf(a)) :
    /\ id \in Live
    /\ Overlap(QRect(a), entities.data[id])

\* a query reports one live entity and leaves out another one whose cell it
\* met in a leaf it visited
C2_Witness ==
  \E a \in QueryArgs : \E e1, e2 \in Live :
    /\ e1 \in Range(QueryOf(a))
    /\ e2 \notin Range(QueryOf(a))
    /\ \E nd \in VisitedBy(a) : e2 \in ChainEntities(Cur, nd.idx)

\* C3: no duplicates. In every reachable state the result of query and of
\* query_omit holds each id at most once, for every query rectangle and
\* every omitted id.
C3_Dedup ==
  \A a \in QueryArgs :
    /\ NoDuplicates(QueryOf(a))
    /\ \A o \in OmitArgs : NoDuplicates(QueryOmitOf(a, o))

\* a query visits two leaves that both hold a cell of an entity it reports
C3_Witness ==
  \E a \in QueryArgs : \E e \in Live :
    /\ e \in Range(QueryOf(a))
    /\ Cardinality({nd \in VisitedBy(a) : e \in ChainEntities(Cur, nd.idx)}) >= 2

\* C4: remove unlinks every cell of the entity. In every reachable state no
\* leaf's chain holds a cell of an id that is not live, no query reports such
\* an id and no entity event of traverse carries it; right after remove(id),
\* id is such an id.
C4_RemoveUnlinks ==
  /\ last.op = "remove" => last.id \notin Live
  /\ \A nd \in TreeLeaves(nodes) : ChainEntities(Cur, nd.idx) \subseteq Live
  /\ \A a \in QueryArgs : Range(QueryOf(a)) \subseteq Live
  /\ \A ev \in Range(traverse(Cur)) :
       ev.kind = "entity" => ev.entity_id \in Live

\* a remove has just unlinked the cells of an entity whose rectangle (which
\* the erased slot still holds) lies in two leaves of a split tree, while
\* another entity is still linked
C4_Witness ==
  /\ last.op = "remove"
  /\ Len(RemoveTargets(Cur, last.id)) >= 2
  /\ \E nd \in TreeLeaves(nodes) : ChainEntities(Cur, nd.idx) # {}

\* C5: query_omit(q, Some(o)) returns the ids of query(q) without o, each
\* once; when o is not the id of a live entity it returns what query(q)
\* returns.
C5_Omit ==
  \A a \in QueryArgs :
    LET base == QueryOf(a)
    IN \A o \in OmitArgs :
         LET out == QueryOmitOf(a, o)
         IN /\ Range(out) = Range(base) \ {o}
            /\ Len(out) = Cardinality(Range(base) \ {o})
            /\ o \notin Live => out = base

\* a query reports two entities and query_omit leaves one of them out
C5_Witness ==
  \E a \in QueryArgs : \E o \in Live :
    /\ o \in Range(QueryOf(a))
    /\ Len(QueryOf(a)) >= 2
    /\ Len(QueryOmitOf(a, o)) = Len(QueryOf(a)) - 1

(***************************************************************************)
(* Ids, chains and the shape of the tree.                                  *)
(***************************************************************************)
\* C6: entity ids are unique among live entities and recycled last-in
\* first-out. An insert returns the top of the entity pool's free stack if
\* there is one and the pool's cursor otherwise, the id it returns was not
\* live, and it leaves the other entities live; a remove puts its id on top of
\* the free stack; no step changes the rectangle of an entity that stays live.
C6_Ids ==
  [][/\ last'.op = "insert" =>
          /\ last'.id = IF entities.vacant # <<>> THEN Last(entities.vacant)
                                                  ELSE entities.cursor
          /\ last'.id \notin Live
          /\ Live' = Live \cup {last'.id}
          /\ entities.vacant # <<>> => entities'.vacant = Front(entities.vacant)
     /\ last'.op = "remove" =>
          /\ entities'.vacant = Append(entities.vacant, last'.id)
          /\ Live' = Live \ {last'.id}
     /\ \A i \in Live \cap Live' : entities'.data[i] = entities.data[i]
    ]_vars

\* an insert has returned id 1 while id 0 is still on the free stack: 1 was
\* removed after 0 and is handed out first
C6_Witness ==
  /\ last.op = "insert"
  /\ last.id = 1
  /\ entities.vacant = <<0>>

\* the chain of every leaf of q has num_children cells, all of them allocated
\* and not erased, and no cell twice
ChainsCounted(q) ==
  \A nd \in TreeLeaves(q.nodes) :
    LET ch == Chain(q, nd.idx)
    IN /\ Len(ch) = q.nodes.data[nd.idx].num_children
       /\ NoDuplicates(ch)
       /\ \A c \in Range(ch) :
            c < q.entity_nodes.cursor /\ c \notin Range(q.entity_nodes.vacant)

\* C7: count invariant. In every reachable state the chain of every leaf has
\* exactly num_children cells, all live, without a cycle; and a remove leaves
\* every leaf a leaf (it never sets num_children to the branch flag).
C7_Count ==
  /\ ChainsCounted(Cur)
  /\ [][/\ ChainsCounted(Cur)'
        /\ last'.op = "remove" =>
             \A idx \in DOMAIN nodes.data :
               IsBranch(nodes', idx) = IsBranch(nodes, idx)
       ]_vars

\* a remove has just taken a cell out of a chain that still holds another one
C7_Witness ==
  /\ last.op = "remove"
  /\ \E nd \in Range(RemoveTargets(Cur, last.id)) :
       nodes.data[nd.idx].num_children >= 1

\* the indices of the Node pool that are allocated and not erased
InUse(ns) == {i \in 0..(ns.cursor - 1) : i \notin Range(ns.vacant)}
BranchIdxs(ns) == {i \in InUse(ns) : IsBranch(ns, i)}
Children(ns, b) == {ns.data[b].first_child + i : i \in 0..3}

\* the indices four consecutive nodes.insert calls return
FourInserts(ns) ==
  LET n1 == ListInsert(ns, NodeDefault)
      n2 == ListInsert(n1, NodeDefault)
      n3 == ListInsert(n2, NodeDefault)
  IN <<ListInsertIdx(ns), ListInsertIdx(n1), ListInsertIdx(n2), ListInsertIdx(n3)>>

\* C8: contiguous quadruplets. In every reachable state the four children
\* first_child + 0..3 of every branch are allocated, not erased, not the root
\* and not children of another branch; the free stack of the Node pool is made
\* of groups that pop as fc, fc+1, fc+2, fc+3, so that the four inserts of a
\* split return four consecutive indices.
C8_Quadruplets ==
  /\ \A b \in BranchIdxs(nodes) :
       /\ Children(nodes, b) \subseteq InUse(nodes)
       /\ root.idx \notin Children(nodes, b)
       /\ \A b2 \in BranchIdxs(nodes) \ {b} :
            Children(nodes, b) \cap Children(nodes, b2) = {}
  /\ Len(nodes.vacant) % 4 = 0
  /\ \A g \in 0..((Len(nodes.vacant) \div 4) - 1) :
       \A k \in 1..4 : nodes.vacant[4 * g + k] = nodes.vacant[4 * g + 4] + (4 - k)
  /\ \A k \in 1..4 : FourInserts(nodes)[k] = FourInserts(nodes)[1] + (k - 1)

\* an insert has just split a leaf with children taken from the free stack
C8_Witness ==
  /\ last.op = "insert"
  /\ last.recycled
  /\ BranchIdxs(nodes) # {}

\* no node is deeper than max_depth
DepthBounded == \A nd \in TreeNodes(nodes) : nd.depth <= max_depth

\* C9: max-depth stop. In every reachable state every node has depth <=
\* max_depth, and an insert leaves every leaf at depth max_depth a leaf: the
\* leaf gets one more entity if the new rectangle is routed to it, whatever it
\* holds already, and is unchanged otherwise.
C9_MaxDepth ==
  /\ DepthBounded
  /\ [][/\ DepthBounded'
        /\ last'.op = "insert" =>
             LET r == entities'.data[last'.id]
                 hit == Range(find_leaves(nodes, root, r.left, r.top, r.right, r.bottom))
             IN \A nd \in TreeLeaves(nodes) :
                  nd.depth = max_depth =>
                    /\ ~IsBranch(nodes', nd.idx)
                    /\ nodes'.data[nd.idx].num_children =
                         nodes.data[nd.idx].num_children + (IF nd \in hit THEN 1 ELSE 0)
       ]_vars

\* an insert has just put an entity into a leaf at depth max_depth that now
\* holds more than max_entities
C9_Witness ==
  /\ last.op = "insert"
  /\ \E nd \in TreeLeaves(nodes) :
       /\ nd.depth = max_depth
       /\ nodes.data[nd.idx].num_children > max_entities
       /\ last.id \in ChainEntities(Cur, nd.idx)

\* node idx of ns is a branch whose four children are leaves without entities
AllEmptyBranch(ns, idx) ==
  /\ IsBranch(ns, idx)
  /\ \A i \in 0..3 : ns.data[ns.data[idx].first_child + i].num_children = 0

\* C10 as stated: after a call of cleanup the tree has no branch whose four
\* children are all empty leaves.
C10_Original ==
  last.op = "cleanup" =>
    \A nd \in TreeNodes(nodes) : ~AllEmptyBranch(nodes, nd.idx)

\* C10 amended: a call of cleanup turns every branch whose four children were
\* empty leaves when the call started into a leaf, and a branch that has four
\* empty leaves as children when the call returns had a branch among its
\* children when the call started.
C10_Amended ==
  [][last'.op = "cleanup" =>
       /\ \A nd \in TreeNodes(nodes) :
            AllEmptyBranch(nodes, nd.idx) => ~IsBranch(nodes', nd.idx)
       /\ \A nd \in TreeNodes(nodes') :
            AllEmptyBranch(nodes', nd.idx) =>
              /\ IsBranch(nodes, nd.idx)
              /\ nodes.data[nd.idx].first_child = nodes'.data[nd.idx].first_child
              /\ \E i \in 0..3 : IsBranch(nodes, nodes.data[nd.idx].first_child + i)
    ]_vars

\* a cleanup has just returned and left a branch with four empty leaves
C10_Witness ==
  /\ last.op = "cleanup"
  /\ \E nd \in TreeNodes(nodes) : AllEmptyBranch(nodes, nd.idx)

(***************************************************************************)
(* Repeated cleanup.                                                       *)
(***************************************************************************)
\* the Node pool after k calls of cleanup in a row
RECURSIVE CleanupTimes(_, _)
CleanupTimes(ns, k) == IF k = 0 THEN ns ELSE CleanupTimes(cleanup(ns), k - 1)

\* the height of the tree: the depth of its deepest node
Height(ns) ==
  CHOOSE d \in 0..(max_depth + 3) :
    /\ \E nd \in TreeNodes(ns) : nd.depth = d
    /\ \A nd \in TreeNodes(ns) : nd.depth <= d

NumBranches(ns) == Cardinality(TreeBranches(ns))

\* Height(ns) calls of cleanup reach a Node pool that one more call leaves as
\* it is; without live entities that pool holds the empty root leaf alone
Converges(ns, live) ==
  LET fix == CleanupTimes(ns, Height(ns))
  IN /\ cleanup(fix) = fix
     /\ live = {} =>
          /\ TreeNodes(fix) = {root}
          /\ fix.data[root.idx] = NodeDefault
          /\ InUse(fix) = {root.idx}

\* C11: cleanup convergence. From every reachable state, as many cleanup
\* calls in a row as the tree is high reach a state that a further cleanup
\* leaves unchanged; when no entity is live that state is the empty root leaf
\* alone; and every cleanup call that changes the Node pool strictly decreases
\* the number of branches.
C11_Convergence ==
  /\ Converges(nodes, Live)
  /\ [][/\ Converges(nodes', Live')
        /\ (last'.op = "cleanup" /\ nodes' # nodes) =>
             NumBranches(nodes') < NumBranches(nodes)
       ]_vars

\* no entity is live, a cleanup has just collapsed the inner branch of a tree
\* of height two, and the next call will collapse the root
C11_Witness ==
  /\ last.op = "cleanup"
  /\ Live = {}
  /\ Height(nodes) = 1
  /\ Len(nodes.vacant) >= 4
  /\ cleanup(nodes) # nodes

\* the leaves that hold at least one entity
NonEmptyLeaves(ns) == {nd \in TreeLeaves(ns) : ns.data[nd.idx].num_children > 0}

\* C12: cleanup changes only empty structure. In every reachable state every
\* branch cleanup can pop has its four children in the Node pool; a cleanup
\* call leaves the entity pool and the entity-node pool unchanged, leaves
\* every non-empty leaf in the tree with its node and its chain unchanged,
\* and leaves the set of ids of every query unchanged; when the root is a
\* leaf the call changes nothing.
C12_CleanupFrame ==
  [][last'.op = "cleanup" =>
       LET after == Pools(nodes', entities', entity_nodes')
       IN /\ \A nd \in TreeBranches(nodes) :
               /\ nodes.data[nd.idx].first_child # None
               /\ Children(nodes, nd.idx) \subseteq 0..(nodes.cursor - 1)
          /\ entities' = entities
          /\ entity_nodes' = entity_nodes
          /\ \A nd \in NonEmptyLeaves(nodes) :
               /\ nd \in TreeLeaves(nodes')
               /\ nodes'.data[nd.idx] = nodes.data[nd.idx]
               /\ Chain(after, nd.idx) = Chain(Cur, nd.idx)
          /\ \A a \in QueryArgs :
               Range(query(after, a[1], a[2], a[3], a[4])) = Range(QueryOf(a))
          /\ ~IsBranch(nodes, root.idx) => nodes' = nodes
    ]_vars

\* a cleanup has just collapsed a branch of a tree that holds an entity in a
\* leaf below the root
C12_Witness ==
  /\ last.op = "cleanup"
  /\ last.changed
  /\ \E nd \in NonEmptyLeaves(nodes) : nd.depth >= 1

\* C13: remove preserves the tree shape. A remove of a live entity leaves the
\* Node pool's cursor, capacity and free stack, the kind of every node, the
\* sets of branches and of leaves of the tree and the first_child of every
\* branch unchanged; the num_children of a leaf goes down by exactly one if
\* the leaf held a cell of the entity and is unchanged otherwise.
C13_RemoveFrame ==
  [][last'.op = "remove" =>
       /\ nodes'.cursor = nodes.cursor
       /\ nodes'.capacity = nodes.capacity
       /\ nodes'.vacant = nodes.vacant
       /\ DOMAIN nodes'.data = DOMAIN nodes.data
       /\ \A idx \in DOMAIN nodes.data : IsBranch(nodes', idx) = IsBranch(nodes, idx)
       /\ TreeBranches(nodes') = TreeBranches(nodes)
       /\ TreeLeaves(nodes') = TreeLeaves(nodes)
       /\ \A nd \in TreeBranches(nodes) :
            nodes'.data[nd.idx].first_child = nodes.data[nd.idx].first_child
       /\ \A nd \in TreeLeaves(nodes) :
            nodes'.data[nd.idx].num_children =
              nodes.data[nd.idx].num_children
                - (IF last'.id \in ChainEntities(Cur, nd.idx) THEN 1 ELSE 0)
    ]_vars

\* a remove has just taken the last live entity out of a leaf below the root:
\* the leaf is empty and the branches are still there
C13_Witness ==
  /\ last.op = "remove"
  /\ Live = {}
  /\ WellFormed(entities.data[last.id])
  /\ TreeBranches(nodes) # {}
  /\ \E nd \in Range(RemoveTargets(Cur, last.id)) :
       nd.depth >= 1 /\ nodes.data[nd.idx].num_children = 0

\* C20: one level of collapse per cleanup call. A cleanup call turns a branch
\* of the tree into the empty leaf, and puts its four children on the free
\* stack, exactly when its four children were empty leaves when the call
\* started; every other branch, one with a branch or a non-empty leaf among
\* its children, is a branch with the same children when the call returns,
\* whatever this call made of its children; no other node changes.
C20_OneLevel ==
  [][last'.op = "cleanup" =>
       LET collapsed == {nd.idx : nd \in {b \in TreeBranches(nodes) :
                                           AllEmptyBranch(nodes, b.idx)}}
       IN /\ \A idx \in collapsed :
               /\ nodes'.data[idx] = NodeDefault
               /\ Children(nodes, idx) \subseteq Range(nodes'.vacant)
          /\ \A nd \in TreeBranches(nodes) :
               nd.idx \notin collapsed =>
                 /\ IsBranch(nodes', nd.idx)
                 /\ nd \in TreeBranches(nodes')
          /\ \A idx \in DOMAIN nodes.data :
               idx \notin collapsed => nodes'.data[idx] = nodes.data[idx]
          /\ Len(nodes'.vacant) = Len(nodes.vacant) + 4 * Cardinality(collapsed)
          /\ last'.changed <=> collapsed # {}
    ]_vars

\* a cleanup has just collapsed the only branch child of the root: the root
\* is still a branch, now with four empty leaves, and an entity is live
C20_Witness ==
  /\ last.op = "cleanup"
  /\ last.changed
  /\ Live # {}
  /\ IsBranch(nodes, root.idx)
  /\ AllEmptyBranch(nodes, root.idx)

(***************************************************************************)
(* The split threshold and the membership of entities in leaves.           *)
(***************************************************************************)
\* the rule of the specification for a leaf with num_children n at depth d:
\* split unless n < max_entities or d = max_depth
SplitRule(n, d) == ~(n < max_entities \/ d = max_depth)

\* every leaf of q below max_depth holds at most max_entities, and on every
\* leaf the test of the code and the rule of the specification agree
LeavesBounded(q) ==
  \A nd \in TreeLeaves(q.nodes) :
    /\ nd.depth < max_depth => q.nodes.data[nd.idx].num_children <= max_entities
    /\ SplitTest(q, nd) <=> SplitRule(q.nodes.data[nd.idx].num_children, nd.depth)

\* C18: split threshold. In every reachable state every leaf at a depth below
\* max_depth holds at most max_entities entities, so that for every leaf the
\* test of the code (num_children = max_entities and depth < max_depth) and
\* the rule of the specification agree; and an insert routed to a leaf at a
\* depth below max_depth leaves it a leaf with one entity more when it held
\* fewer than max_entities and makes it a branch when it held max_entities.
C18_SplitThreshold ==
  /\ LeavesBounded(Cur)
  /\ [][/\ LeavesBounded(Pools(nodes', entities', entity_nodes'))
        /\ last'.op = "insert" =>
             LET r == entities'.data[last'.id]
                 hit == Range(find_leaves(nodes, root, r.left, r.top, r.right, r.bottom))
             IN \A nd \in hit :
                  nd.depth < max_depth =>
                    IF nodes.data[nd.idx].num_children < max_entities
                      THEN /\ ~IsBranch(nodes', nd.idx)
                           /\ nodes'.data[nd.idx].num_children =
                                nodes.data[nd.idx].num_children + 1
                      ELSE IsBranch(nodes', nd.idx)
       ]_vars

\* an insert has just split a leaf below the root that held max_entities: the
\* new entity lies at depth two, in a leaf that holds more than max_entities
C18_Witness ==
  /\ last.op = "insert"
  /\ \E nd \in TreeLeaves(nodes) :
       /\ nd.depth = 2
       /\ last.id \in ChainEntities(Cur, nd.idx)
       /\ nodes.data[nd.idx].num_children = max_entities + 1
  /\ \E nd \in TreeLeaves(nodes) :
       nd.depth = 1 /\ nodes.data[nd.idx].num_children = 0

\* the leaves find_leaves returns for the rectangle of entity e
RoutedLeaves(q, e) ==
  LET r == q.entities.data[e]
  IN Range(find_leaves(q.nodes, root, r.left, r.top, r.right, r.bottom))

\* the number of cells of entity e in the chain of leaf idx
CellsOf(q, idx, e) ==
  Cardinality({k \in 1..Len(Chain(q, idx)) :
                 q.entity_nodes.data[Chain(q, idx)[k]].entity = e})

\* every cell in the chain of a leaf of the tree refers to a live entity
CellsLive ==
  \A nd \in TreeLeaves(nodes) : ChainEntities(Cur, nd.idx) \subseteq Live

\* C19 as stated: in every reachable state, for every live entity the leaves
\* that hold a cell of it are exactly the leaves find_leaves returns for its
\* rectangle, each of them holds exactly one cell of it, and every cell
\* refers to a live entity.
C19_Original ==
  /\ \A e \in Live :
       /\ LeavesOf(Cur, e) = RoutedLeaves(Cur, e)
       /\ \A nd \in RoutedLeaves(Cur, e) : CellsOf(Cur, nd.idx, e) = 1
  /\ CellsLive

\* C19 amended: the leaves that hold a cell of a live entity are exactly the
\* leaves find_leaves returns for its rectangle when the rectangle is
\* well-formed (left <= right and top <= bottom); for every live entity they
\* are among the leaves find_leaves returns, and each holds exactly one cell
\* of it; every cell refers to a live entity.
C19_Amended ==
  /\ \A e \in Live :
       /\ WellFormed(entities.data[e]) => LeavesOf(Cur, e) = RoutedLeaves(Cur, e)
       /\ LeavesOf(Cur, e) \subseteq RoutedLeaves(Cur, e)
       /\ \A nd \in LeavesOf(Cur, e) : CellsOf(Cur, nd.idx, e) = 1
  /\ CellsLive

\* a live entity with left > right has lost its cell in a split and
\* find_leaves returns for it a leaf that a cleanup has made, while another
\* live entity has one cell in each of the two leaves it is routed to
C19_Witness ==
  /\ \E e \in Live :
       /\ ~WellFormed(entities.data[e])
       /\ LeavesOf(Cur, e) = {}
       /\ RoutedLeaves(Cur, e) # {}
  /\ \E e \in Live :
       /\ WellFormed(entities.data[e])
       /\ Cardinality(LeavesOf(Cur, e)) = 2
  /\ nodes.vacant # <<>>

(***************************************************************************)
(* calc_max_depth on its own: the arguments are drawn, then the function   *)
(* is called.                                                              *)
(***************************************************************************)
\* sizes up to MaxSize are all tried
MaxSize == 24

\* the boundaries tests::calc_max_depth computes for x: next_lower is
\* power + (power >> 1) with power = 1 << x, prev_upper is next_lower - 1
NextLower(x) == 2^x + Shr1(2^x)
PrevUpper(x) == NextLower(x) - 1

\* the i32 sizes tried: all small ones, the 60 boundaries, and the 100 of
\* tests::new
CalcSizes ==
  (-2..MaxSize) \cup {NextLower(x) : x \in 1..30} \cup {PrevUpper(x) : x \in 1..30}
    \cup {100}

\* no Quadtree is built
NoTree ==
  /\ root = None
  /\ max_entities = 0
  /\ max_depth = 0
  /\ nodes = ListDefault
  /\ entities = ListDefault
  /\ entity_nodes = ListDefault
  /\ last = [op |-> "none", id |-> None, recycled |-> FALSE, changed |-> FALSE]
  /\ order = <<>>
  /\ NoCall

InitCalc ==
  /\ calc \in [w : CalcSizes, h : CalcSizes, depth : {None}]
  /\ NoTree
  /\ NoList

CalcCall ==
  /\ calc.depth = None
  /\ calc' = [calc EXCEPT !.depth = calc_max_depth(calc.w, calc.h)]
  /\ UNCHANGED <<tree_vars, list_vars>>

NextCalc == CalcCall

SpecCalc == InitCalc /\ [][NextCalc]_vars

\* the least number of halvings s \div 2^k that bring s down to at most 2
Halvings(s) ==
  IF s <= 2 THEN 0
  ELSE CHOOSE k \in 1..31 :
         /\ s \div (2^k) <= 2
         /\ \A j \in 0..(k - 1) : s \div (2^j) > 2

\* C14: calc_max_depth(w, h) is the number of integer halvings that bring
\* s = min(w, h) down to at most 2 (0 when s <= 2); for a square region of
\* side s and every x in 1..30, 3*2^(x-1) <= s <= 3*2^x - 1 gives x (the
\* upper end is written s \div 2 < 3*2^(x-1), which is the same for integers
\* and stays within 32 bits), so that next_lower gives x and prev_upper
\* gives x - 1; a 100 x 100 region gives 6.
C14_CalcMaxDepth ==
  calc.depth # None =>
    LET s == IF calc.w <= calc.h THEN calc.w ELSE calc.h
    IN /\ calc.depth = Halvings(s)
       /\ calc.w = calc.h =>
            \A x \in 1..30 :
              /\ (NextLower(x) <= s /\ s \div 2 < NextLower(x)) => calc.depth = x
              /\ s = NextLower(x) => calc.depth = x
              /\ s = PrevUpper(x) => calc.depth = x - 1
       /\ (calc.w = 100 /\ calc.h = 100) => calc.depth = 6

\* the call has returned 30 for the square whose side is the largest
\* boundary of the test
C14_Witness ==
  /\ calc.depth = 30
  /\ calc.w = NextLower(30)
  /\ calc.h = calc.w
  /\ \E x \in 1..30 : NextLower(x) <= calc.h /\ calc.h \div 2 < NextLower(x)

(***************************************************************************)
(* traverse.                                                               *)
(***************************************************************************)
\* the positions of the events of kind k in the event sequence ev
EventsOf(ev, k) == {i \in 1..Len(ev) : ev[i].kind = k}

\* C15: traverse reports the whole structure exactly once. In every reachable
\* state the events of one traverse call hold exactly one branch event for
\* every branch of the tree and no other, exactly one leaf event for every
\* leaf and no other, and right after each leaf event the entity events of
\* the cells of that leaf, num_children of them, in chain order, followed by
\* no further entity event; the number of entity events is the number of live
\* cells, and every live entity with a well-formed rectangle has an event.
C15_Traverse ==
  LET ev == traverse(Cur)
      branches == EventsOf(ev, "branch")
      leaves == EventsOf(ev, "leaf")
      ents == EventsOf(ev, "entity")
  IN /\ \A nd \in TreeBranches(nodes) :
          Cardinality({i \in branches : ev[i].idx = nd.idx}) = 1
     /\ Cardinality(branches) = Cardinality({nd.idx : nd \in TreeBranches(nodes)})
     /\ \A nd \in TreeLeaves(nodes) :
          Cardinality({i \in leaves : ev[i].idx = nd.idx}) = 1
     /\ Cardinality(leaves) = Cardinality({nd.idx : nd \in TreeLeaves(nodes)})
     /\ \A i \in leaves :
          LET n == nodes.data[ev[i].idx].num_children
              ch == Chain(Cur, ev[i].idx)
          IN /\ ev[i].num_children = n
             /\ Len(ch) = n
             /\ i + n <= Len(ev)
             /\ \A k \in 1..n :
                  /\ ev[i + k].kind = "entity"
                  /\ ev[i + k].idx = ch[k]
                  /\ ev[i + k].entity_id = entity_nodes.data[ch[k]].entity
             /\ i + n < Len(ev) => ev[i + n + 1].kind # "entity"
     /\ Cardinality(ents) = Cardinality(InUse(entity_nodes))
     /\ \A e \in Live :
          WellFormed(entities.data[e]) => \E i \in ents : ev[i].entity_id = e

\* a traverse of a split tree reports an entity twice, once for each of the
\* two leaves it lies in, and one of these leaves holds two cells
C15_Witness ==
  LET ev == traverse(Cur)
  IN /\ EventsOf(ev, "branch") # {}
     /\ \E i, j \in EventsOf(ev, "entity") :
          i < j /\ ev[i].entity_id = ev[j].entity_id
     /\ \E i \in EventsOf(ev, "leaf") :
          ev[i].num_children >= 2 /\ ev[i + 2].kind = "entity"

(***************************************************************************)
(* A List<u8> on its own: new(c), then any calls of push, insert, erase,   *)
(* pop and clear that keep the preconditions (pop with cursor > 0, erase   *)
(* of an index below the cursor that is not erased already).  A push that  *)
(* panics ends the run.                                                    *)
(***************************************************************************)
\* pushes are cut off when the cursor has reached MaxListLen
MaxListLen == 4
\* the capacities given to List::new and the elements stored
ListCapacities == 0..2
ListValues == {1, 2}

InitList ==
  /\ \E c \in ListCapacities : list = ListNew(c)
  /\ lop = [op |-> "new", arg |-> None, ret |-> None]
  /\ panicked = FALSE
  /\ NoTree
  /\ NoCalc

LPush(v) ==
  /\ ~panicked
  /\ list.cursor < MaxListLen
  /\ IF PushPanics(list)
       THEN /\ list' = ListPushPanicked(list)
            /\ panicked' = TRUE
            /\ lop' = [op |-> "push", arg |-> v, ret |-> None]
       ELSE /\ list' = ListPush(list, v)
            /\ panicked' = FALSE
            /\ lop' = [op |-> "push", arg |-> v, ret |-> ListPushIdx(list)]
  /\ UNCHANGED <<tree_vars, calc>>

LInsert(v) ==
  /\ ~panicked
  /\ list.vacant # <<>> \/ list.cursor < MaxListLen
  /\ IF list.vacant = <<>> /\ PushPanics(list)
       THEN /\ list' = ListPushPanicked(list)
            /\ panicked' = TRUE
            /\ lop' = [op |-> "insert", arg |-> v, ret |-> None]
       ELSE /\ list' = ListInsert(list, v)
            /\ panicked' = FALSE
            /\ lop' = [op |-> "insert", arg |-> v, ret |-> ListInsertIdx(list)]
  /\ UNCHANGED <<tree_vars, calc>>

LErase(index) ==
  /\ ~panicked
  /\ index < list.cursor
  /\ index \notin Range(list.vacant)
  /\ list' = ListErase(list, index)
  /\ lop' = [op |-> "erase", arg |-> index, ret |-> None]
  /\ UNCHANGED <<panicked, tree_vars, calc>>

LPop ==
  /\ ~panicked
  /\ list.cursor > 0
  /\ list' = ListPop(list)
  /\ lop' = [op |-> "pop", arg |-> None, ret |-> ListPopValue(list)]
  /\ UNCHANGED <<panicked, tree_vars, calc>>

LClear ==
  /\ ~panicked
  /\ list' = ListClear(list)
  /\ lop' = [op |-> "clear", arg |-> None, ret |-> None]
  /\ UNCHANGED <<panicked, tree_vars, calc>>

NextList ==
  \/ \E v \in ListValues : LPush(v)
  \/ \E v \in ListValues : LInsert(v)
  \/ \E index \in 0..(MaxListLen - 1) : LErase(index)
  \/ LPop
  \/ LClear

SpecList == InitList /\ [][NextList]_vars

\* the stored values of l other than the one at index
SameBut(l1, l2, index) ==
  \A i \in DOMAIN l1.data : i # index => (i \in DOMAIN l2.data /\ l2.data[i] = l1.data[i])

\* C16: slot recycling. An insert made while indices are erased returns the
\* index erased last, stores the element there, takes that index off the free
\* stack and leaves cursor, capacity and the other slots unchanged, so that
\* erase(i) followed by insert(v) returns i; only with an empty free stack
\* does insert act as push, returning the old cursor and advancing it by one;
\* erase changes neither cursor nor capacity nor any stored value.
C16_Recycling ==
  [][/\ (lop'.op = "insert" /\ list.vacant # <<>>) =>
          /\ lop'.ret = Last(list.vacant)
          /\ list'.data[lop'.ret] = lop'.arg
          /\ list'.vacant = Front(list.vacant)
          /\ list'.cursor = list.cursor
          /\ list'.capacity = list.capacity
          /\ SameBut(list, list', lop'.ret)
          /\ ~panicked'
     /\ (lop'.op = "insert" /\ lop.op = "erase") => lop'.ret = lop.arg
     /\ (lop'.op = "insert" /\ list.vacant = <<>> /\ ~panicked') =>
          /\ lop'.ret = list.cursor
          /\ list'.cursor = list.cursor + 1
          /\ list'.data[lop'.ret] = lop'.arg
          /\ list' = ListPush(list, lop'.arg)
     /\ lop'.op = "erase" =>
          /\ list'.cursor = list.cursor
          /\ list'.capacity = list.capacity
          /\ list'.data = list.data
          /\ list'.vacant = Append(list.vacant, lop'.arg)
    ]_vars

\* an insert has just returned index 2, erased last, while index 0, erased
\* before it, is still on the free stack, on a list with three slots in use
C16_Witness ==
  /\ lop.op = "insert"
  /\ lop.ret = 2
  /\ list.vacant = <<0>>
  /\ list.cursor = 3
  /\ list.data[2] = lop.arg

\* what a call of push, insert, erase, pop or clear does to cursor and
\* capacity: it does not fail, cursor <= capacity holds after it, a push made
\* when cursor = capacity doubles the capacity, keeps the values below the old
\* cursor and stores the new value at the old cursor, a push made when
\* cursor < capacity and every pop, erase and clear leave the capacity
\* unchanged
GrowthStep ==
  /\ ~panicked'
  /\ list'.cursor <= list'.capacity
  /\ (lop'.op = "push" /\ list.cursor = list.capacity) =>
       /\ list'.capacity = 2 * list.capacity
       /\ \A i \in 0..(list.cursor - 1) : list'.data[i] = list.data[i]
       /\ list'.data[list.cursor] = lop'.arg
  /\ (lop'.op = "push" /\ list.cursor < list.capacity) =>
       list'.capacity = list.capacity
  /\ lop'.op \in {"pop", "erase", "clear"} => list'.capacity = list.capacity

\* C17 as stated: for every initial capacity, every call is a GrowthStep.
C17_Original == [][GrowthStep]_vars

\* C17 for the lists made by new(c) with c >= 1: every call is a GrowthStep.
C17_FromOne == [][list.capacity >= 1 => GrowthStep]_vars

\* a push has just doubled the capacity of a list made with capacity >= 1
C17_FromOneWitness ==
  /\ lop.op = "push"
  /\ ~panicked
  /\ list.capacity = 2 * (list.cursor - 1)

(***************************************************************************)
(* The order of the cells of a chain.                                      *)
(***************************************************************************)
\* the position of the live entity e in order: a greater position is a later
\* insert call
Born(e) == CHOOSE k \in 1..Len(order) : order[k] = e

\* the entity ids of the cells of the chain of leaf idx, from the head on
ChainIds(q, idx) ==
  [k \in 1..Len(Chain(q, idx)) |-> q.entity_nodes.data[Chain(q, idx)[k]].entity]

Reverse(s) == [k \in 1..Len(s) |-> s[Len(s) + 1 - k]]

\* the entities of the sequence s that find_leaves, started at node nd,
\* routes to the leaf lf
RoutedTo(q, nd, lf, s) ==
  SelectSeq(s, LAMBDA e :
    lf \in Range(find_leaves(q.nodes, nd, q.entities.data[e].left, q.entities.data[e].top,
                             q.entities.data[e].right, q.entities.data[e].bottom)))

\* the leaves of the subtree of nd
LeavesUnder(ns, nd) == {lf \in Subtree(ns, nd, max_depth + 3) : ~IsBranch(ns, lf.idx)}

InsertOrders(before, after, nd, id) ==
  LET drained == <<id>> \o ChainIds(before, nd.idx)
  IN \A lf \in LeavesUnder(after.nodes, nd) :
       ChainIds(after, lf.idx) =
         RoutedTo(after, nd, lf,
                  IF (lf.depth - nd.depth) % 2 = 0 THEN drained ELSE Reverse(drained))

\* the cells of every chain of q stand in the order of their allocation, the
\* cell allocated last (the one with the greatest index) at the head
NewestCellFirst(q) ==
  \A nd \in TreeLeaves(q.nodes) :
    LET ch == Chain(q, nd.idx)
    IN \A i, j \in 1..Len(ch) : i < j => ch[i] > ch[j]

NextCell(q, idx) == LinkCell(q, idx, 0).nodes.data[idx].first_child

\* C22 as stated: whenever leaf_insert allocates a cell while the free stack
\* of the EntityNode pool is not empty, the cell is placed at an index taken
\* from the free stack, the free stack gets shorter and the cursor stays.
C22_Original ==
  entity_nodes.vacant # <<>> =>
    \A nd \in TreeLeaves(nodes) :
      LET q == LinkCell(Cur, nd.idx, 0)
      IN /\ NextCell(Cur, nd.idx) \in Range(entity_nodes.vacant)
         /\ Len(q.entity_nodes.vacant) < Len(entity_nodes.vacant)
         /\ q.entity_nodes.cursor = entity_nodes.cursor

(***************************************************************************)
(* The routing of find_leaves.                                             *)
(***************************************************************************)
\* the rectangles routed: those of QueryArgs, a row on the horizontal split
\* axis of the root (top = bottom = 0) and a row on that of its first child
\* (top = bottom = -2, from -3 to 0)
RouteArgs == QueryArgs \cup {<<-5, 1, 4, 1>>, <<-7, -5, 1, -5>>}

\* the rule of the specification: the descent with rectangle r enters child
\* +k of a branch with center (nd.x, nd.y)
Enters(k, nd, r) ==
  /\ k \in {0, 1} => r.top <= nd.y
  /\ k \in {2, 3} => r.bottom > nd.y
  /\ k \in {0, 2} => r.left <= nd.x
  /\ k \in {1, 3} => r.right > nd.x

\* the leaves the rule leads to from node nd
RECURSIVE RouteSet(_, _, _)
RouteSet(ns, nd, r) ==
  IF ~IsBranch(ns, nd.idx) THEN {nd}
  ELSE LET kids == TraversePushes(nd, ns.data[nd.idx].first_child)
       IN UNION {RouteSet(ns, kids[k + 1], r) : k \in {i \in 0..3 : Enters(i, nd, r)}}

\* the offsets 0..3 of the children the code pushes at branch nd for r
Entered(ns, nd, r) ==
  LET fc == ns.data[nd.idx].first_child
  IN {p.idx - fc : p \in Range(BranchPushes(nd, fc, r.left, r.top, r.right, r.bottom))}

\* C23: routing rule of find_leaves. In every reachable state, at every
\* branch with center (x, y) the descent with rectangle (L, T, R, B) enters
\* child +0 iff T <= y and L <= x, +1 iff T <= y and R > x, +2 iff B > y and
\* L <= x, +3 iff B > y and R > x; a rectangle with L = R = x enters left
\* children (+0, +2) only, one with T = B = y top children (+0, +1) only, a
\* well-formed rectangle enters at least one child; find_leaves returns
\* exactly the leaves the rule leads to from the root, each once.
C23_Routing ==
  \A a \in RouteArgs :
    LET r == QRect(a)
        lv == find_leaves(nodes, root, r.left, r.top, r.right, r.bottom)
    IN /\ Range(lv) = RouteSet(nodes, root, r)
       /\ \A i, j \in 1..Len(lv) : i # j => lv[i].idx # lv[j].idx
       /\ WellFormed(r) => lv # <<>>
       /\ \A nd \in TreeBranches(nodes) :
            LET entered == Entered(nodes, nd, r)
            IN /\ \A k \in 0..3 : k \in entered <=> Enters(k, nd, r)
               /\ (r.left = nd.x /\ r.right = nd.x) => entered \subseteq {0, 2}
               /\ (r.top = nd.y /\ r.bottom = nd.y) => entered \subseteq {0, 1}
               /\ WellFormed(r) => entered # {}

\* the root and one of its children are branches; a column on the vertical
\* axis of the root is routed to left children only and reaches a leaf at
\* depth two, and a row on the horizontal axis of that child is routed to
\* its top children only
C23_Witness ==
  /\ IsBranch(nodes, root.idx)
  /\ \E a \in RouteArgs :
       LET r == QRect(a)
       IN /\ r.left = root.x /\ r.right = root.x /\ r.top < root.y /\ r.bottom > root.y
          /\ Entered(nodes, root, r) = {0, 2}
          /\ \E lf \in RouteSet(nodes, root, r) : lf.depth = 2
  /\ \E nd \in TreeBranches(nodes) : \E a \in RouteArgs :
       LET r == QRect(a)
       IN /\ nd.depth = 1
          /\ r.top = nd.y /\ r.bottom = nd.y /\ r.left < nd.x /\ r.right > nd.x
          /\ Entered(nodes, nd, r) = {0, 1}

(***************************************************************************)
(* The order of traverse.                                                  *)
(***************************************************************************)
\* what a branch or leaf event tells of its node
NodeView(e) ==
  [kind |-> e.kind, idx |-> e.idx, depth |-> e.depth,
   x |-> e.x, y |-> e.y, width |-> e.width, height |-> e.height]

\* child +k of a node seen as v, whose first child is fc: one level deeper,
\* its half-extents the halves (>> 1) of the parent's half-extents, its
\* center the parent's center moved by them to the left or right and to the
\* top or bottom
KidView(v, fc, k, kind) ==
  LET qx == Shr1(v.width \div 2)
      qy == Shr1(v.height \div 2)
  IN [kind |-> kind, idx |-> fc + k, depth |-> v.depth + 1,
      x |-> IF k \in {1, 3} THEN v.x + qx ELSE v.x - qx,
      y |-> IF k \in {2, 3} THEN v.y + qy ELSE v.y - qy,
      width |-> Shl1(qx), height |-> Shl1(qy)]

\* the pre-order walk of the subtree of the node seen as v: the node, then
\* the subtrees of its children +3, +2, +1, +0, each one whole
RECURSIVE PreOrder(_, _)
PreOrder(ns, v) ==
  IF v.kind = "leaf" THEN <<v>>
  ELSE LET fc == ns.data[v.idx].first_child
           sub(k) == PreOrder(ns, KidView(v, fc, k,
                                 IF IsBranch(ns, fc + k) THEN "branch" ELSE "leaf"))
       IN <<v>> \o sub(3) \o sub(2) \o sub(1) \o sub(0)

\* the root as traverse reports it
RootView(ns) ==
  [kind |-> IF IsBranch(ns, root.idx) THEN "branch" ELSE "leaf",
   idx |-> root.idx, depth |-> root.depth, x |-> root.x, y |-> root.y,
   width |-> Shl1(root.hx), height |-> Shl1(root.hy)]

\* the branch and leaf events of the event sequence ev, as NodeViews
NodeViews(ev) ==
  LET nev == SelectSeq(ev, LAMBDA e : e.kind # "entity")
  IN [i \in 1..Len(nev) |-> NodeView(nev[i])]

\* C24: traversal order. In every reachable state the branch and leaf events
\* of traverse are the pre-order depth-first walk of the tree: the event of a
\* branch comes before the events of its subtree, the subtrees of its
\* children follow in the order first_child + 3, + 2, + 1, + 0, each one whole
\* before the next; a child is reported one level deeper than its parent,
\* with the extents and the center derived by halving the parent's
\* half-extents; the entity events of a leaf stand between the event of the
\* leaf and the next branch or leaf event.
C24_TraversalOrder ==
  LET ev == traverse(Cur)
  IN /\ NodeViews(ev) = PreOrder(nodes, RootView(nodes))
     /\ ev[1].kind # "entity"
     /\ \A i \in EventsOf(ev, "entity") :
          LET lf == CHOOSE j \in 1..i :
                      /\ ev[j].kind # "entity"
                      /\ \A m \in (j + 1)..i : ev[m].kind = "entity"
          IN /\ ev[lf].kind = "leaf"
             /\ ev[i].idx \in Range(Chain(Cur, ev[lf].idx))

\* the root and its first child are branches: traverse reports the root,
\* then its children +3, +2, +1, which are leaves, then the branch +0 and
\* right after it that branch's child +3 at depth two, and an entity
C24_Witness ==
  LET ev == traverse(Cur)
  IN /\ Len(ev) >= 10
     /\ ev[1].kind = "branch"
     /\ \A k \in 1..3 : ev[1 + k].kind = "leaf" /\ ev[1 + k].idx = ev[1].first_leaf + (4 - k)
     /\ ev[5].kind = "branch" /\ ev[5].idx = ev[1].first_leaf /\ ev[5].depth = 1
     /\ ev[6].idx = ev[5].first_leaf + 3 /\ ev[6].depth = 2
     /\ EventsOf(ev, "entity") # {}

(***************************************************************************)
(* The accounting of the Node pool.                                        *)
(***************************************************************************)
\* the indices of the nodes reachable from the root
ReachableIdxs(ns) == {nd.idx : nd \in TreeNodes(ns)}

\* C26: node accounting. In every reachable state the nodes reachable from
\* the root form a tree (no index is reached twice) in which every branch
\* has four children, so that the number of leaves is 3 * the number of
\* branches + 1; the reachable indices and the free stack of the Node pool
\* partition 0..cursor-1: no reachable index is on the free stack, no index
\* is on it twice, every other index is on it; and the length of the free
\* stack is a multiple of 4.
C26_NodeAccounting ==
  /\ Cardinality(ReachableIdxs(nodes)) = Cardinality(TreeNodes(nodes))
  /\ \A nd \in TreeBranches(nodes) :
       /\ nodes.data[nd.idx].first_child # None
       /\ Cardinality(Children(nodes, nd.idx) \cap ReachableIdxs(nodes)) = 4
  /\ Cardinality(TreeLeaves(nodes)) = 3 * Cardinality(TreeBranches(nodes)) + 1
  /\ ReachableIdxs(nodes) \cap Range(nodes.vacant) = {}
  /\ NoDuplicates(nodes.vacant)
  /\ ReachableIdxs(nodes) \cup Range(nodes.vacant) = 0..(nodes.cursor - 1)
  /\ Len(nodes.vacant) % 4 = 0

\* a cleanup has just collapsed one of two branches: of the nine nodes
\* allocated five are in the tree and four on the free stack
C26_Witness ==
  /\ last.op = "cleanup"
  /\ last.changed
  /\ nodes.cursor = 9
  /\ Cardinality(TreeBranches(nodes)) = 1
  /\ Cardinality(TreeLeaves(nodes)) = 4
  /\ Len(nodes.vacant) = 4

(***************************************************************************)
(* insert followed step by step.  A step is the entry of a call, one turn  *)
(* of a loop or a return; between two insert calls remove and cleanup are  *)
(* called as before.  A frame of the stack of calls is                     *)
(* [fn, pc, node_data, entity_idx, items, i].  For node_insert items holds *)
(* the leaves found and i is the index of the for loop (from 1).  For      *)
(* leaf_insert pc is "enter" before the cell is linked, "drain" in the     *)
(* while loop of a split, and "reinsert" in the for loop that re-inserts   *)
(* the drained ids, which items holds and i indexes.                       *)
(***************************************************************************)
\* the cells an insert call followed step by step may bring the pool to
MaxStepCells == 8

\* arguments of Quadtree::new: an 8 x 8 region with max_entities 1 and 0
StepNewArgs == {<<0, 0, 16, 17, 1>>, <<0, 0, 16, 17, 0>>}
\* arguments of the insert calls followed step by step: the point and the
\* segment of InsertArgs, routed to one leaf and to two
StepArgs == {<<-5, -5, -5, -5>>, <<-5, 4, 4, 4>>}

Frame(fn, pc, node_data, entity_idx, items, i) ==
  [fn |-> fn, pc |-> pc, node_data |-> node_data, entity_idx |-> entity_idx,
   items |-> items, i |-> i]

\* the frame of a call node_insert(start_node, entity_idx) on the pools q,
\* after its find_leaves
NodeInsertFrame(q, start_node, entity_idx) ==
  LET entity == q.entities.data[entity_idx]
  IN Frame("node_insert", "loop", start_node, entity_idx,
           find_leaves(q.nodes, start_node,
                       entity.left, entity.top, entity.right, entity.bottom), 1)

\* the innermost call
Top == Last(calls)

\* the stack of calls with the fields pc, items and i of the innermost set
SetTop(pc, items, i) ==
  [calls EXCEPT ![Len(calls)].pc = pc, ![Len(calls)].items = items, ![Len(calls)].i = i]

InitStep == \E a \in StepNewArgs : New(a)

\* insert(x1, y1, x2, y2) is called: the entity is stored and node_insert is
\* entered
InsertCall(x1, y1, x2, y2) ==
  LET rect == MkEntity(x1, y1, x2, y2)
      new_entity_idx == ListInsertIdx(entities)
      done == InsertPools(Cur, rect)
  IN /\ calls = <<>>
     /\ done.entity_nodes.cursor <= MaxStepCells
     /\ done.entities.cursor <= MaxIds
     /\ entities' = ListInsert(entities, rect)
     /\ calls' = <<NodeInsertFrame(Pools(nodes, ListInsert(entities, rect), entity_nodes),
                                   root, new_entity_idx)>>
     /\ entry' = [q |-> Cur, rect |-> rect, id |-> new_entity_idx]
     /\ order' = Append(order, new_entity_idx)
     /\ UNCHANGED <<root, max_entities, max_depth, nodes, entity_nodes, last,
                    list_vars, calc>>

\* one turn of the for loop of node_insert: leaf_insert is called
NodeInsertCall ==
  /\ calls # <<>>
  /\ Top.fn = "node_insert"
  /\ Top.i <= Len(Top.items)
  /\ calls' = Append(SetTop("loop", Top.items, Top.i + 1),
                     Frame("leaf_insert", "enter", Top.items[Top.i], Top.entity_idx, <<>>, 0))
  /\ UNCHANGED <<root, max_entities, max_depth, nodes, entities, entity_nodes,
                 last, order, entry, list_vars, calc>>

\* the for loop of node_insert is over: node_insert returns, and with it
\* insert when this was the call insert made
NodeInsertReturn ==
  /\ calls # <<>>
  /\ Top.fn = "node_insert"
  /\ Top.i > Len(Top.items)
  /\ calls' = Front(calls)
  /\ last' = IF Len(calls) = 1
               THEN [op |-> "insert", id |-> entry.id,
                     recycled |-> Len(nodes.vacant) < Len(entry.q.nodes.vacant),
                     changed |-> FALSE]
               ELSE last
  /\ entry' = IF Len(calls) = 1 THEN [q |-> None, rect |-> None, id |-> None] ELSE entry
  /\ UNCHANGED <<root, max_entities, max_depth, nodes, entities, entity_nodes,
                 order, list_vars, calc>>

\* leaf_insert links the new cell and finds the leaf full: the split begins
LeafInsertSplit ==
  /\ calls # <<>>
  /\ Top.fn = "leaf_insert"
  /\ Top.pc = "enter"
  /\ SplitTest(LinkCell(Cur, Top.node_data.idx, Top.entity_idx), Top.node_data)
  /\ nodes' = LinkCell(Cur, Top.node_data.idx, Top.entity_idx).nodes
  /\ entity_nodes' = LinkCell(Cur, Top.node_data.idx, Top.entity_idx).entity_nodes
  /\ calls' = SetTop("drain", <<>>, 0)
  /\ UNCHANGED <<root, max_entities, max_depth, entities, last, order, entry,
                 list_vars, calc>>

\* leaf_insert links the new cell, increments the count and returns
LeafInsertKeep ==
  /\ calls # <<>>
  /\ Top.fn = "leaf_insert"
  /\ Top.pc = "enter"
  /\ ~SplitTest(LinkCell(Cur, Top.node_data.idx, Top.entity_idx), Top.node_data)
  /\ nodes' = [LinkCell(Cur, Top.node_data.idx, Top.entity_idx).nodes
                 EXCEPT !.data[Top.node_data.idx].num_children = @ + 1]
  /\ entity_nodes' = LinkCell(Cur, Top.node_data.idx, Top.entity_idx).entity_nodes
  /\ calls' = Front(calls)
  /\ UNCHANGED <<root, max_entities, max_depth, entities, last, order, entry,
                 list_vars, calc>>

\* one turn of the while loop of the split: the head cell is taken off the
\* chain and erased, its entity id is kept
DrainTurn ==
  /\ calls # <<>>
  /\ Top.fn = "leaf_insert"
  /\ Top.pc = "drain"
  /\ nodes.data[Top.node_data.idx].first_child # None
  /\ LET index == nodes.data[Top.node_data.idx].first_child
         e_node == entity_nodes.data[index]
     IN /\ nodes' = [nodes EXCEPT !.data[Top.node_data.idx].first_child = e_node.next]
        /\ entity_nodes' = ListErase(entity_nodes, index)
        /\ calls' = SetTop("drain", Append(Top.items, e_node.entity), 0)
  /\ UNCHANGED <<root, max_entities, max_depth, entities, last, order, entry,
                 list_vars, calc>>

\* the chain is drained: the four children are allocated and the node is
\* made a branch
SplitAlloc ==
  /\ calls # <<>>
  /\ Top.fn = "leaf_insert"
  /\ Top.pc = "drain"
  /\ nodes.data[Top.node_data.idx].first_child = None
  /\ nodes' = AllocChildren(nodes, Top.node_data.idx)
  /\ calls' = SetTop("reinsert", Top.items, 1)
  /\ UNCHANGED <<root, max_entities, max_depth, entities, entity_nodes, last, order,
                 entry, list_vars, calc>>

\* one turn of the loop that re-inserts the drained entities: node_insert is
\* called from the split node
LeafReinsertCall ==
  /\ calls # <<>>
  /\ Top.fn = "leaf_insert"
  /\ Top.pc = "reinsert"
  /\ Top.i <= Len(Top.items)
  /\ calls' = Append(SetTop("reinsert", Top.items, Top.i + 1),
                     NodeInsertFrame(Cur, Top.node_data, Top.items[Top.i]))
  /\ UNCHANGED <<root, max_entities, max_depth, nodes, entities, entity_nodes,
                 last, order, entry, list_vars, calc>>

\* the drained entities are re-inserted: leaf_insert returns
LeafInsertReturn ==
  /\ calls # <<>>
  /\ Top.fn = "leaf_insert"
  /\ Top.pc = "reinsert"
  /\ Top.i > Len(Top.items)
  /\ calls' = Front(calls)
  /\ UNCHANGED <<root, max_entities, max_depth, nodes, entities, entity_nodes,
                 last, order, entry, list_vars, calc>>

\* the steps of an insert call in progress
InsertStep ==
  \/ NodeInsertCall
  \/ NodeInsertReturn
  \/ LeafInsertSplit
  \/ LeafInsertKeep
  \/ DrainTurn
  \/ SplitAlloc
  \/ LeafReinsertCall
  \/ LeafInsertReturn

\* remove and cleanup, called while no insert is in progress
RemoveBetween(entity_idx) == calls = <<>> /\ Remove(entity_idx)
CleanupBetween == calls = <<>> /\ Cleanup

NextStep ==
  \/ \E a \in StepArgs : InsertCall(a[1], a[2], a[3], a[4])
  \/ InsertStep
  \/ \E entity_idx \in 0..(MaxIds - 1) : RemoveBetween(entity_idx)
  \/ CleanupBetween

\* a call that has started goes on: the program runs one thread and no step
\* of an insert waits for anything
SpecStep == InitStep /\ [][NextStep]_vars /\ WF_vars(InsertStep)

\* the leaf_insert calls in progress, and those of them that have split
LeafFrames == {k \in 1..Len(calls) : calls[k].fn = "leaf_insert"}
SplitFrames == {k \in LeafFrames : calls[k].pc # "enter"}

\* the leaf_insert calls that have split are at most max_depth, each on a
\* node at a depth below max_depth and deeper than the one before; the
\* leaf_insert calls in progress are at most max_depth + 1
NestingBounded ==
  /\ Cardinality(SplitFrames) <= max_depth
  /\ Cardinality(LeafFrames) <= max_depth + 1
  /\ Len(calls) <= 2 * max_depth + 2
  /\ \A k \in SplitFrames : calls[k].node_data.depth < max_depth
  /\ \A j, k \in LeafFrames : j < k => calls[j].node_data.depth < calls[k].node_data.depth

\* the lists l1 and l2 have the same fields and hold the same values
SameList(l1, l2) ==
  /\ l1.cursor = l2.cursor
  /\ l1.capacity = l2.capacity
  /\ l1.vacant = l2.vacant
  /\ DOMAIN l1.data = DOMAIN l2.data
  /\ \A k \in DOMAIN l1.data : l1.data[k] = l2.data[k]

\* the step is the return of insert
Returns == calls # <<>> /\ calls' = <<>>

\* C25: insert always terminates. From every reachable state and for every
\* rectangle a call of insert returns after finitely many steps, with the
\* pools that the recursion computes; the leaf_insert calls that have split
\* never nest deeper than max_depth and the leaf_insert calls in progress are
\* never more than max_depth + 1, also when all the drained entities are
\* routed into the same child at every level and when max_entities = 0.
C25_Terminates ==
  /\ []NestingBounded
  /\ (calls # <<>>) ~> (calls = <<>>)
  /\ [][Returns =>
          LET done == InsertPools(entry.q, entry.rect)
          IN /\ SameList(nodes', done.nodes)
             /\ SameList(entities', done.entities)
             /\ SameList(entity_nodes', done.entity_nodes)]_vars

\* with max_entities 1 the second of two equal points has split the root and
\* then its first child, where both drained entities went: the call is
\* max_depth + 1 leaf_insert calls deep, on a leaf at depth max_depth
C25_Witness ==
  /\ max_entities = 1
  /\ max_depth = 2
  /\ Cardinality(LeafFrames) = max_depth + 1
  /\ Cardinality(SplitFrames) = max_depth
  /\ Top.fn = "leaf_insert"
  /\ Top.node_data.depth = max_depth
  /\ Len(calls[Len(calls) - 2].items) = max_entities + 1

\* with max_entities 0 the first insert has split the root and its child and
\* has reached a leaf at depth max_depth
C25_ZeroWitness ==
  /\ max_entities = 0
  /\ max_depth = 2
  /\ Cardinality(SplitFrames) = max_depth
  /\ Top.fn = "leaf_insert"
  /\ Top.node_data.depth = max_depth

====
